---------------------------- MODULE Spec2Model ----------------------------
(***************************************************************************)
(* Model of the three loan-approval serving adapters:                      *)
(*   - the Flask REST server        (src/flask_model_server.py)            *)
(*   - RModelServer                 (src/model_server.py)                  *)
(*   - LoanApprovalModel            (src/seldon_model.py)                  *)
(* Each request handler is one atomic action.  The R worker process, the   *)
(* model artifact files and the request inputs are the environment.        *)
(*                                                                         *)
(* Python / JSON values are tagged records [t |-> tag, v |-> payload]:     *)
(*   "none"    None / JSON null                                            *)
(*   "num"     a Python number (payload: an integer)                       *)
(*   "list"    a Python list   (payload: a sequence of values)             *)
(*   "dict"    a Python dict   (payload: a function from keys to values)   *)
(*   "ndarray" a numpy array   (payload: a sequence of numpy scalars, or   *)
(*             of ndarray rows for a 2-D array)                            *)
(*   "npint"   a numpy int64 scalar   (not a subclass of int)              *)
(*   "npfloat" a numpy float64 scalar (a subclass of float)                *)
(* String-valued items are outside the input universe (dict keys are       *)
(* plain strings).  Probabilities and confidences are integers in units of *)
(* 1/10000, the resolution of the worker's JSON output.                    *)
(***************************************************************************)
EXTENDS Integers, Sequences, FiniteSets, TLC

VARIABLES files, model_ready, tmp_files, last

vars == <<files, model_ready, tmp_files, last>>

(***************************************************************************)
(* Bounds of the model (not program constants).                            *)
(***************************************************************************)
\* largest forest (number of trees) of a model artifact
MaxTrees == 3
\* cap on the number of leaked temporary files that are tracked
MaxTmpFiles == 1
\* longest array-form input
MaxLen == 6

(***************************************************************************)
(* Program constants.                                                      *)
(***************************************************************************)
feature_names == <<"age", "income", "education", "experience", "credit_score">>

FlaskModelPath == "/app/model/flask_random_forest.rds"
MinioModelPath == "/app/model/random_forest_minio.rds"
ModelPaths == {FlaskModelPath, MinioModelPath}

\* decimal digits jsonlite::toJSON prints (its default), as a scale factor
JsonScale == 10000
\* the 0.5 threshold and the [[0.5, 0.5]] default, in units of 1/JsonScale
Half == 5000

(***************************************************************************)
(* Values.                                                                 *)
(***************************************************************************)
None == [t |-> "none", v |-> 0]
Num(n) == [t |-> "num", v |-> n]
NpInt(n) == [t |-> "npint", v |-> n]
NpFloat(n) == [t |-> "npfloat", v |-> n]
List(s) == [t |-> "list", v |-> s]
Dict(f) == [t |-> "dict", v |-> f]
NdArray(s) == [t |-> "ndarray", v |-> s]
EmptyDict == Dict(<<>>)

\* an exception: its class, and str(e) as a fixed text plus a variable part
Exc(type, text, arg) == [type |-> type, text |-> text, arg |-> arg]
NoExc == Exc("", "", "")
\* the result of evaluating an expression: a value, or a raised exception
Ok(x) == [exc |-> NoExc, val |-> x]
Raise(e) == [exc |-> e, val |-> None]
Raised(r) == r.exc.type # ""

\* a message: fixed text and the variable part formatted into it
Msg(text, arg) == [text |-> text, arg |-> arg]
NoMsg == Msg("", "")
\* str(e)
StrOf(e) == Msg(e.text, e.arg)

\* bool(x)
Truthy(x) ==
    CASE x.t = "none" -> FALSE
      [] x.t = "num" -> x.v # 0
      [] x.t = "list" -> Len(x.v) > 0
      [] x.t = "dict" -> DOMAIN x.v # {}

\* key in x, for a string key
In(key, x) ==
    CASE x.t = "dict" -> Ok(key \in DOMAIN x.v)
      [] x.t = "list" -> Ok(FALSE)
      [] x.t \in {"num", "none"} ->
            Raise(Exc("TypeError", "argument is not iterable", x.t))

\* x[key], for a string key
SubscrKey(x, key) ==
    CASE x.t = "dict" ->
            IF key \in DOMAIN x.v THEN Ok(x.v[key])
            ELSE Raise(Exc("KeyError", "", key))
      [] x.t = "list" ->
            Raise(Exc("TypeError", "list indices must be integers", ""))
      [] x.t \in {"num", "none"} ->
            Raise(Exc("TypeError", "object is not subscriptable", x.t))

\* x[0]
SubscrFirst(x) ==
    CASE x.t \in {"list", "ndarray"} ->
            IF Len(x.v) > 0 THEN Ok(x.v[1])
            ELSE Raise(Exc("IndexError", "index out of range", ""))
      [] x.t = "dict" -> Raise(Exc("KeyError", "", "0"))
      [] x.t \in {"num", "none"} ->
            Raise(Exc("TypeError", "object is not subscriptable", x.t))

Min(a, b) == IF a < b THEN a ELSE b

\* dict(zip(names, values)) for a sequence of values
ZipSeq(names, s) ==
    LET n == Min(Len(names), Len(s))
    IN  Dict([k \in {names[i] : i \in 1..n} |->
                s[CHOOSE i \in 1..n : names[i] = k]])

\* dict(zip(names, values))
Zip(names, values) ==
    CASE values.t \in {"list", "ndarray"} -> Ok(ZipSeq(names, values.v))
      [] values.t \in {"num", "none"} ->
            Raise(Exc("TypeError", "zip argument is not iterable", values.t))

RECURSIVE Serializable(_)
\* whether json.dumps accepts x (numpy int64 and ndarray are rejected)
Serializable(x) ==
    CASE x.t \in {"none", "num", "npfloat"} -> TRUE
      [] x.t \in {"npint", "ndarray"} -> FALSE
      [] x.t = "list" -> \A i \in 1..Len(x.v) : Serializable(x.v[i])
      [] x.t = "dict" -> \A k \in DOMAIN x.v : Serializable(x.v[k])

RECURSIVE JsonOf(_)
\* the JSON document json.dumps writes for a serializable x, as the value a
\* JSON reader gets back (a numpy float64 is written as a plain number)
JsonOf(x) ==
    CASE x.t \in {"none", "num"} -> x
      [] x.t = "npfloat" -> Num(x.v)
      [] x.t = "list" -> List([i \in 1..Len(x.v) |-> JsonOf(x.v[i])])
      [] x.t = "dict" -> Dict([k \in DOMAIN x.v |-> JsonOf(x.v[k])])

\* json.dumps(x)
JsonDumps(x) ==
    IF Serializable(x) THEN Ok(JsonOf(x))
    ELSE Raise(Exc("TypeError", "Object is not JSON serializable", ""))

\* x.tolist(): numpy scalars become Python numbers
TolistSeq(s) == [i \in 1..Len(s) |-> Num(s[i].v)]

(***************************************************************************)
(* The worker: one Rscript process per call.                               *)
(*                                                                         *)
(* The environment chooses how the process behaves:                        *)
(*   "script"  Rscript runs the prediction script to its end; the model    *)
(*             artifact, when present, is a forest of ntree trees of which *)
(*             votes vote "approved" for the record                        *)
(*   "timeout" the process is still running after the timeout              *)
(*   "nospawn" the Rscript executable cannot be started                    *)
(*   "garbage" exit status 0, stdout is not a JSON document                *)
(*   "nofield" exit status 0, stdout is the JSON object {}                 *)
(***************************************************************************)
Worker(kind, ntree, votes) == [kind |-> kind, ntree |-> ntree, votes |-> votes]

Workers ==
    {w \in {Worker("script", n, k) : n \in 1..MaxTrees, k \in 0..MaxTrees} :
        w.votes <= w.ntree}
    \cup {Worker(k, 1, 0) : k \in {"timeout", "nospawn", "garbage", "nofield"}}

\* a number num/den printed by toJSON(digits = 4), in units of 1/JsonScale
\* (no num/den with den < 32 lies halfway between two printed values)
Round4(num, den) == (2 * num * JsonScale + den) \div (2 * den)

Abs(n) == IF n < 0 THEN -n ELSE n

ResultKeys == {"probability", "prediction", "confidence"}

\* what the R script computes and prints for a vote share of votes/ntree
ScriptResult(ntree, votes) ==
    [keys |-> ResultKeys,
     probability |-> Round4(votes, ntree),
     prediction |-> IF 2 * votes > ntree THEN "approved" ELSE "denied",
     confidence |-> Round4(Abs(2 * votes - ntree), ntree)]

EmptyResult ==
    [keys |-> {}, probability |-> 0, prediction |-> "", confidence |-> 0]

\* the record the R script can build its one-row data frame from
ValidRecord(j) ==
    /\ j.t = "dict"
    /\ \A i \in 1..Len(feature_names) :
          /\ feature_names[i] \in DOMAIN j.v
          /\ j.v[feature_names[i]].t = "num"

Completed(rc, parses, result, stderr) ==
    [exc |-> NoExc, returncode |-> rc, parses |-> parses, result |-> result,
     stderr |-> stderr, killed |-> FALSE]

\* the R prediction script on the JSON record it is handed
RScript(path, json, w, fs) ==
    IF path \notin fs
    THEN Completed(1, FALSE, EmptyResult, "cannot open file")
    ELSE IF ~ValidRecord(json)
    THEN Completed(1, FALSE, EmptyResult, "error in predict")
    ELSE Completed(0, TRUE, ScriptResult(w.ntree, w.votes), "")

\* subprocess.run(['Rscript', '-e', script, ...], timeout=30)
SubprocessRun(path, json, w, fs) ==
    CASE w.kind = "script" -> RScript(path, json, w, fs)
      [] w.kind = "timeout" ->
            [Completed(0, FALSE, EmptyResult, "") EXCEPT
                !.exc = Exc("TimeoutExpired", "timed out after seconds", "30"),
                !.killed = TRUE]
      [] w.kind = "nospawn" ->
            [Completed(0, FALSE, EmptyResult, "") EXCEPT
                !.exc = Exc("FileNotFoundError", "No such file", "Rscript")]
      [] w.kind = "garbage" -> Completed(0, FALSE, EmptyResult, "")
      [] w.kind = "nofield" -> Completed(0, TRUE, EmptyResult, "")

\* result[key] on the parsed worker output
ResultMissing(result) ==
    IF "probability" \notin result.keys THEN "probability"
    ELSE IF "prediction" \notin result.keys THEN "prediction"
    ELSE IF "confidence" \notin result.keys THEN "confidence"
    ELSE ""

(***************************************************************************)
(* What one call did: the response it returned (or the exception that left *)
(* the handler), the record it resolved, and its effects on the worker and *)
(* on the temporary directory.                                             *)
(***************************************************************************)
NoResp == [shape |-> "none"]

CallRec(exc, resp, instance, launched, sent, killed, created, left) ==
    [exc |-> exc, resp |-> resp, instance |-> instance,
     launched |-> launched, sent |-> sent, killed |-> killed,
     tmp_created |-> created, tmp_left |-> left]

\* the call returned resp before any worker was started
Early(resp, instance) ==
    CallRec(NoExc, resp, instance, FALSE, None, FALSE, FALSE, FALSE)

\* the call raised e before any worker was started
EarlyRaise(e, instance) ==
    CallRec(e, NoResp, instance, FALSE, None, FALSE, FALSE, FALSE)

(***************************************************************************)
(* Flask server: POST /predict and GET /health.                            *)
(***************************************************************************)
HttpError(status, error) ==
    [shape |-> "http", status |-> status, error |-> error, predictions |-> <<>>]

HttpPrediction(result, instance) ==
    [shape |-> "http", status |-> 200, error |-> NoMsg,
     predictions |-> <<[probability |-> result.probability,
                        prediction |-> result.prediction,
                        confidence |-> result.confidence,
                        input |-> instance]>>]

\* FlaskResolve with the data envelope tried before the instances envelope
FlaskResolveDataFirst(data) ==
    LET hasInst == In("instances", data)
        hasData == In("data", data)
    IN  IF Raised(hasData) THEN hasData
        ELSE IF hasData.val
        THEN LET d == data.v["data"]
                 hasNd == In("ndarray", d)
             IN  IF Raised(hasNd) THEN hasNd
                 ELSE IF hasNd.val
                 THEN LET values == SubscrFirst(d.v["ndarray"])
                      IN  IF Raised(values) THEN values
                          ELSE Zip(feature_names, values.val)
                 ELSE Ok(d)
        ELSE IF hasInst.val THEN SubscrFirst(data.v["instances"])
        ELSE Ok(data)

\* "Handle different input formats": the record the request resolves to
FlaskResolve(data) ==
    LET hasInst == In("instances", data)
        hasData == In("data", data)
    IN  IF Raised(hasInst) THEN hasInst
        ELSE IF hasInst.val THEN SubscrFirst(data.v["instances"])
        ELSE IF hasData.val
        THEN LET d == data.v["data"]
                 hasNd == In("ndarray", d)
             IN  IF Raised(hasNd) THEN hasNd
                 ELSE IF hasNd.val
                 THEN LET values == SubscrFirst(d.v["ndarray"])
                      IN  IF Raised(values) THEN values
                          ELSE Zip(feature_names, values.val)
                 ELSE Ok(d)
        ELSE Ok(data)

\* "Validate required features": the first feature not in the instance
\* ("" when all are there); the membership test itself may raise
FirstMissing(names, instance) ==
    LET probe == In(names[1], instance)
        absent == {i \in 1..Len(names) : ~In(names[i], instance).val}
    IN  IF Raised(probe) THEN probe
        ELSE IF absent = {} THEN Ok("")
        ELSE Ok(names[CHOOSE i \in absent : \A j \in absent : i <= j])

\* "Run R prediction", without its except clauses
FlaskRun(instance, w, fs) ==
    LET dumped == JsonDumps(instance)
        p == SubprocessRun(FlaskModelPath, dumped.val, w, fs)
        started == p.exc.type # "FileNotFoundError"
        miss == ResultMissing(p.result)
    IN  IF Raised(dumped) THEN EarlyRaise(dumped.exc, instance)
        ELSE IF Raised(p)
        THEN CallRec(p.exc, NoResp, instance, started, dumped.val, p.killed,
                     FALSE, FALSE)
        ELSE LET done(resp) == CallRec(NoExc, resp, instance, TRUE,
                                       dumped.val, FALSE, FALSE, FALSE)
                 fail(e) == CallRec(e, NoResp, instance, TRUE,
                                    dumped.val, FALSE, FALSE, FALSE)
             IN  IF p.returncode # 0
                 THEN done(HttpError(500, Msg("R prediction failed: ", p.stderr)))
                 ELSE IF ~p.parses
                 THEN done(HttpError(500, Msg("Invalid JSON from R script", "")))
                 ELSE IF miss # "" THEN fail(Exc("KeyError", "", miss))
                 ELSE done(HttpPrediction(p.result, instance))

\* the except clauses of "Run R prediction"
FlaskRunExcept(c) ==
    IF c.exc.type = "" THEN c
    ELSE IF c.exc.type = "TimeoutExpired"
    THEN [c EXCEPT !.exc = NoExc,
                   !.resp = HttpError(504, Msg("Prediction timeout", ""))]
    ELSE [c EXCEPT !.exc = NoExc, !.resp = HttpError(500, StrOf(c.exc))]

\* the body of predict()'s outer try
FlaskBody(data, w, fs) ==
    IF ~Truthy(data)
    THEN Early(HttpError(400, Msg("No JSON data provided", "")), None)
    ELSE LET instance == FlaskResolve(data)
             missing == FirstMissing(feature_names, instance.val)
         IN  IF Raised(instance) THEN EarlyRaise(instance.exc, None)
             ELSE IF Raised(missing) THEN EarlyRaise(missing.exc, instance.val)
             ELSE IF missing.val # ""
             THEN Early(HttpError(400, Msg("Missing required feature: ",
                                           missing.val)), instance.val)
             ELSE FlaskRunExcept(FlaskRun(instance.val, w, fs))

\* predict()'s outer except clause
FlaskOuterExcept(c) ==
    IF c.exc.type = "" THEN c
    ELSE [c EXCEPT !.exc = NoExc, !.resp = HttpError(500, StrOf(c.exc))]

\* POST /predict
FlaskPredictCall(data, w, fs) == FlaskOuterExcept(FlaskBody(data, w, fs))

HealthResp(status, code, loaded) ==
    [shape |-> "health", status |-> status, code |-> code,
     model_loaded |-> loaded]

\* GET /health
FlaskHealthCall(fs) ==
    IF FlaskModelPath \notin fs THEN HealthResp("unhealthy", 503, FALSE)
    ELSE HealthResp("healthy", 200, TRUE)

(***************************************************************************)
(* RModelServer (src/model_server.py).                                     *)
(***************************************************************************)
DictError(e) ==
    [shape |-> "dict", predictions |-> <<0>>, prediction_class |-> "error",
     confidence |-> 0, error |-> StrOf(e)]

DictPrediction(result) ==
    [shape |-> "dict", predictions |-> <<result.probability>>,
     prediction_class |-> result.prediction,
     confidence |-> result.confidence, error |-> NoMsg]

\* "Handle different input formats"
RResolve(X) ==
    IF X.t = "dict" THEN Ok(X)
    ELSE IF X.t \in {"list", "ndarray"}
    THEN IF Len(X.v) >= Len(feature_names)
         THEN Ok(ZipSeq(feature_names, SubSeq(X.v, 1, Len(feature_names))))
         ELSE Raise(Exc("ValueError", "Input array too short", ""))
    ELSE Raise(Exc("ValueError", "Unsupported input format", ""))

\* the temporary file, the worker run and the finally clause that unlinks
\* the file
RRun(input_data, w, fs) ==
    LET written == JsonDumps(input_data)
        p == SubprocessRun(MinioModelPath, written.val, w, fs)
        started == p.exc.type # "FileNotFoundError"
        miss == ResultMissing(p.result)
        done(resp) == CallRec(NoExc, resp, input_data, TRUE, written.val,
                              FALSE, TRUE, FALSE)
        fail(e) == CallRec(e, NoResp, input_data, TRUE, written.val,
                           FALSE, TRUE, FALSE)
    IN  IF Raised(written)
        THEN \* json.dump raises inside the with block: the file stays
             CallRec(written.exc, NoResp, input_data, FALSE, None, FALSE,
                     TRUE, TRUE)
        ELSE IF Raised(p)
        THEN CallRec(p.exc, NoResp, input_data, started, written.val,
                     p.killed, TRUE, FALSE)
        ELSE IF p.returncode # 0
        THEN fail(Exc("RuntimeError", "R prediction failed: ", p.stderr))
        ELSE IF ~p.parses
        THEN fail(Exc("JSONDecodeError", "Expecting value", ""))
        ELSE IF miss # "" THEN fail(Exc("KeyError", "", miss))
        ELSE done(DictPrediction(p.result))

\* the body of predict()'s try
RBody(X, w, fs) ==
    LET input_data == RResolve(X)
        missing == FirstMissing(feature_names, input_data.val)
    IN  IF Raised(input_data) THEN EarlyRaise(input_data.exc, None)
        ELSE IF missing.val # ""
        THEN EarlyRaise(Exc("ValueError", "Missing required feature: ",
                            missing.val), input_data.val)
        ELSE RRun(input_data.val, w, fs)

\* RExcept with a clause that catches ValueError only
RExceptValueErrorOnly(c) ==
    IF c.exc.type = "ValueError"
    THEN [c EXCEPT !.exc = NoExc, !.resp = DictError(c.exc)]
    ELSE c

\* predict()'s except clause
RExcept(c) ==
    IF c.exc.type = "" THEN c
    ELSE [c EXCEPT !.exc = NoExc, !.resp = DictError(c.exc)]

\* RModelServer.predict
RPredictCall(X, w, fs) == RExcept(RBody(X, w, fs))

\* RModelServer.health_status
RHealthCall(ready) ==
    HealthResp(IF ready THEN "healthy" ELSE "loading", 0, ready)

(***************************************************************************)
(* LoanApprovalModel (src/seldon_model.py).                                *)
(***************************************************************************)
NdResp(denied, approved) ==
    [shape |-> "ndarray", rows |-> << <<denied, approved>> >>]

DefaultPrediction == NdResp(Half, Half)

\* the number of dimensions of an array (1 or 2)
NDim(X) == IF Len(X.v) > 0 /\ X.v[1].t = "ndarray" THEN 2 ELSE 1

\* "Handle input format"
SeldonResolve(X) ==
    IF X.t = "list"
    THEN Raise(Exc("AttributeError", "object has no attribute", "shape"))
    ELSE IF X.t = "ndarray"
    THEN IF NDim(X) = 1
         THEN Ok(ZipSeq(feature_names, TolistSeq(X.v)))
         ELSE LET row == SubscrFirst(X)
              IN  IF Raised(row) THEN row
                  ELSE Ok(ZipSeq(feature_names, TolistSeq(row.val.v)))
    ELSE Raise(Exc("ValueError", "Unsupported input format", ""))

\* "Execute R script", without its except clauses
SeldonRun(input_data, w, fs) ==
    LET arg == JsonDumps(input_data)
        p == SubprocessRun(FlaskModelPath, arg.val, w, fs)
        started == p.exc.type # "FileNotFoundError"
        miss == ResultMissing(p.result)
        done(resp) == CallRec(NoExc, resp, input_data, TRUE, arg.val,
                              FALSE, FALSE, FALSE)
        fail(e) == CallRec(e, NoResp, input_data, TRUE, arg.val,
                           FALSE, FALSE, FALSE)
    IN  IF Raised(arg) THEN EarlyRaise(arg.exc, input_data)
        ELSE IF Raised(p)
        THEN CallRec(p.exc, NoResp, input_data, started, arg.val, p.killed,
                     FALSE, FALSE)
        ELSE IF p.returncode # 0 THEN done(DefaultPrediction)
        ELSE IF ~p.parses
        THEN fail(Exc("JSONDecodeError", "Expecting value", ""))
        ELSE IF miss # "" THEN fail(Exc("KeyError", "", miss))
        ELSE done(NdResp(JsonScale - p.result.probability,
                         p.result.probability))

\* the except clauses of "Execute R script"
SeldonRunExcept(c) ==
    IF c.exc.type = "" THEN c
    ELSE [c EXCEPT !.exc = NoExc, !.resp = DefaultPrediction]

\* the body of predict()'s outer try
SeldonBody(X, w, fs) ==
    LET input_data == SeldonResolve(X)
    IN  IF Raised(input_data) THEN EarlyRaise(input_data.exc, None)
        ELSE SeldonRunExcept(SeldonRun(input_data.val, w, fs))

\* predict()'s outer except clause
SeldonOuterExcept(c) ==
    IF c.exc.type = "" THEN c
    ELSE [c EXCEPT !.exc = NoExc, !.resp = DefaultPrediction]

\* LoanApprovalModel.predict
SeldonPredictCall(X, w, fs) == SeldonOuterExcept(SeldonBody(X, w, fs))

\* LoanApprovalModel.health_status
SeldonHealthCall(fs) ==
    IF FlaskModelPath \in fs THEN HealthResp("healthy", 0, TRUE)
    ELSE HealthResp("unhealthy", 0, FALSE)

(***************************************************************************)
(* Request inputs.                                                         *)
(***************************************************************************)
Features == {feature_names[i] : i \in 1..Len(feature_names)}

\* the i-th value of sample array s; sample 1 starts 35, 75000, 16, 10, 750
SampleValue(s, i) ==
    (CASE i = 1 -> 35 [] i = 2 -> 75000 [] i = 3 -> 16 [] i = 4 -> 10
       [] i = 5 -> 750 [] OTHER -> 900 + i) + (s - 1)

FeatureIndex(k) == CHOOSE i \in 1..Len(feature_names) : feature_names[i] = k

\* the record of sample s restricted to the fields S
Rec(s, S) == Dict([k \in S |-> Num(SampleValue(s, FeatureIndex(k)))])

\* sample s as a list of n Python numbers, or n numpy scalars
Row(s, n) == [i \in 1..n |-> Num(SampleValue(s, i))]
NpIntRow(s, n) == [i \in 1..n |-> NpInt(SampleValue(s, i))]
NpFloatRow(s, n) == [i \in 1..n |-> NpFloat(SampleValue(s, i))]

Lengths == 0..MaxLen

\* f extended by the key k with value x
With(f, k, x) == [j \in DOMAIN f \cup {k} |-> IF j = k THEN x ELSE f[j]]

Envelope(k, x) == Dict(With(<<>>, k, x))

InstancesValues ==
    {List(<<>>), List(<<Rec(1, Features)>>), Num(3),
     List(<<Rec(1, Features \ {"credit_score"})>>),
     List(<<Rec(1, Features), Rec(2, Features)>>)}

DataValues ==
    {Rec(2, Features), Rec(2, Features \ {"age"}), Num(5), None, List(<<>>),
     Envelope("ndarray", List(<<>>)), Envelope("ndarray", Num(1))}
    \cup {Envelope("ndarray", List(<<List(Row(2, n))>>)) : n \in Lengths}

\* request bodies of POST /predict, as parsed by get_json()
FlaskBodies ==
    {None, EmptyDict, Num(7), List(<<Rec(1, Features)>>)}
    \cup {Rec(1, Features \ S) : S \in {{}} \cup {{k} : k \in Features}}
    \cup {Envelope("instances", x) : x \in InstancesValues}
    \cup {Envelope("data", x) : x \in DataValues}
    \cup {Dict(With(With(<<>>, "instances", List(<<Rec(1, Features)>>)),
                    "data", x)) :
             x \in {Rec(2, Features),
                    Envelope("ndarray", List(<<List(Row(2, 5))>>))}}
    \cup {Dict(With(Rec(1, Features).v, "data", Rec(2, Features))),
          Dict(With(Rec(1, Features).v, "instances",
                    List(<<Rec(2, Features)>>)))}

\* arguments X of RModelServer.predict and LoanApprovalModel.predict
PyInputs ==
    {None, Num(7), Rec(1, Features), Rec(1, Features \ {"income"}),
     Dict([k \in Features |-> NpInt(SampleValue(1, FeatureIndex(k)))]),
     NdArray(NpFloatRow(1, 5)),
     NdArray(<<NdArray(NpIntRow(1, 5))>>),
     NdArray(<<NdArray(NpIntRow(1, 4))>>)}
    \cup {List(Row(1, n)) : n \in Lengths}
    \cup {NdArray(NpIntRow(1, n)) : n \in Lengths}

(***************************************************************************)
(* The state machine.                                                      *)
(*   files        the model artifact files that exist                      *)
(*   model_ready  RModelServer.model_ready                                 *)
(*   tmp_files    temporary input files left behind by earlier calls       *)
(*   last         the call that has just returned: its input, the worker   *)
(*                behaviour it met and what it did; Idle once its response *)
(*                has been handed to the caller                            *)
(***************************************************************************)
Idle ==
    [op |-> "none", input |-> None, worker |-> Worker("script", 1, 0),
     call |-> Early(NoResp, None)]

Called(op, input, w, call) ==
    [op |-> op, input |-> input, worker |-> w, call |-> call]

Init ==
    /\ files \in SUBSET ModelPaths
    /\ model_ready = FALSE
    /\ tmp_files = 0
    /\ last = Idle

FlaskPredict ==
    \E data \in FlaskBodies, w \in Workers :
        /\ last.op = "none"
        /\ last' = Called("flask_predict", data, w,
                          FlaskPredictCall(data, w, files))
        /\ UNCHANGED <<files, model_ready, tmp_files>>

FlaskHealth ==
    /\ last.op = "none"
    /\ last' = Called("flask_health", None, Idle.worker,
                      Early(FlaskHealthCall(files), None))
    /\ UNCHANGED <<files, model_ready, tmp_files>>

RPredict ==
    \E X \in PyInputs, w \in Workers :
        LET c == RPredictCall(X, w, files)
            left == tmp_files + (IF c.tmp_left THEN 1 ELSE 0)
        IN  /\ last.op = "none"
            /\ left <= MaxTmpFiles
            /\ last' = Called("r_predict", X, w, c)
            /\ model_ready' = TRUE
            /\ tmp_files' = left
            /\ UNCHANGED files

RHealth ==
    /\ last.op = "none"
    /\ last' = Called("r_health", None, Idle.worker,
                      Early(RHealthCall(model_ready), None))
    /\ UNCHANGED <<files, model_ready, tmp_files>>

SeldonPredict ==
    \E X \in PyInputs, w \in Workers :
        /\ last.op = "none"
        /\ last' = Called("seldon_predict", X, w,
                          SeldonPredictCall(X, w, files))
        /\ UNCHANGED <<files, model_ready, tmp_files>>

SeldonHealth ==
    /\ last.op = "none"
    /\ last' = Called("seldon_health", None, Idle.worker,
                      Early(SeldonHealthCall(files), None))
    /\ UNCHANGED <<files, model_ready, tmp_files>>

\* the environment removes a model artifact file
RemoveModel ==
    \E path \in files :
        /\ last.op = "none"
        /\ files' = files \ {path}
        /\ UNCHANGED <<model_ready, tmp_files, last>>

\* the environment restores a model artifact file
RestoreModel ==
    \E path \in ModelPaths \ files :
        /\ last.op = "none"
        /\ files' = files \cup {path}
        /\ UNCHANGED <<model_ready, tmp_files, last>>

\* the response of the call that has just returned is handed to its caller
Deliver ==
    /\ last.op # "none"
    /\ last' = Idle
    /\ UNCHANGED <<files, model_ready, tmp_files>>

Next ==
    \/ FlaskPredict
    \/ FlaskHealth
    \/ RPredict
    \/ RHealth
    \/ SeldonPredict
    \/ SeldonHealth
    \/ RemoveModel
    \/ RestoreModel
    \/ Deliver

Spec == Init /\ [][Next]_vars

(***************************************************************************)
(* Vocabulary of the properties.                                           *)
(***************************************************************************)
PredictOps == {"flask_predict", "r_predict", "seldon_predict"}
HealthOps == {"flask_health", "r_health", "seldon_health"}

\* the predict call of the adapter that op names
PredictCallOf(op, input, w, fs) ==
    CASE op = "flask_predict" -> FlaskPredictCall(input, w, fs)
      [] op = "r_predict" -> RPredictCall(input, w, fs)
      [] op = "seldon_predict" -> SeldonPredictCall(input, w, fs)

\* the artifact file the adapter's prediction script loads
ArtifactOf(op) ==
    IF op \in {"r_predict", "r_health"} THEN MinioModelPath ELSE FlaskModelPath

\* the required fields a record lacks
MissingOf(rec) == {k \in Features : k \notin DOMAIN rec.v}

\* the response is an error response that carries a message
IsErrorResp(resp) ==
    \/ resp.shape = "http" /\ resp.status >= 400
    \/ resp.shape = "dict" /\ resp.prediction_class = "error"

\* the response is a prediction
IsPredictionResp(resp) ==
    \/ resp.shape = "http" /\ resp.status = 200
    \/ resp.shape = "dict" /\ resp.prediction_class # "error"
    \/ resp.shape = "ndarray"

\* what the worker process of the latest call did
LastProcess ==
    SubprocessRun(ArtifactOf(last.op), last.call.sent, last.worker, files)

\* a request body whose record is the first row of data.ndarray
HasNdarrayRow(b) ==
    /\ b.t = "dict"
    /\ "instances" \notin DOMAIN b.v
    /\ "data" \in DOMAIN b.v
    /\ b.v["data"].t = "dict"
    /\ "ndarray" \in DOMAIN b.v["data"].v
    /\ b.v["data"].v["ndarray"].t = "list"
    /\ Len(b.v["data"].v["ndarray"].v) > 0
    /\ b.v["data"].v["ndarray"].v[1].t = "list"

\* the latest call has an array-form input: a list or a one-dimensional
\* array handed to predict, or the first row of data.ndarray
HasArrayInput ==
    \/ /\ last.op \in {"r_predict", "seldon_predict"}
       /\ last.input.t \in {"list", "ndarray"}
       /\ \A i \in 1..Len(last.input.v) :
             last.input.v[i].t \in {"num", "npint", "npfloat"}
    \/ /\ last.op = "flask_predict"
       /\ HasNdarrayRow(last.input)

\* that input, as a sequence of values
ArrayInput ==
    IF last.op = "flask_predict"
    THEN last.input.v["data"].v["ndarray"].v[1].v
    ELSE last.input.v

(***************************************************************************)
(* C1.  In every adapter, a request whose resolved record lacks one of the *)
(* five required fields ends in a validation error that names a missing    *)
(* field; the worker is never started with the incomplete record and no    *)
(* default prediction is returned.                                         *)
(* Fails: LoanApprovalModel.predict has no validation step.                *)
(***************************************************************************)
C1_MissingFieldRejected ==
    (/\ last.op \in PredictOps
     /\ last.call.instance.t = "dict"
     /\ MissingOf(last.call.instance) # {})
    => /\ ~last.call.launched
       /\ IsErrorResp(last.call.resp)
       /\ last.call.resp.error.text = "Missing required feature: "
       /\ last.call.resp.error.arg \in MissingOf(last.call.instance)

(***************************************************************************)
(* C2.  Flask /predict answers every request (a JSON object or null) that  *)
(* it refuses before starting a worker (no data, missing field, short or   *)
(* empty array, empty instances, data that is not an object) with a 4xx    *)
(* status, and every failed worker invocation (timeout, non-zero exit,     *)
(* malformed output) with a 5xx status.                                    *)
(* Fails: an empty instances or ndarray list, or a data value that is a    *)
(* number or null, raises and is answered 500.                             *)
(***************************************************************************)
C2_FlaskStatusClasses ==
    (last.op = "flask_predict" /\ last.input.t \in {"none", "dict"}) =>
        /\ (~last.call.launched /\ last.worker.kind # "nospawn")
              => last.call.resp.status \in 400..499
        /\ (/\ last.call.launched
            /\ \/ Raised(LastProcess)
               \/ LastProcess.returncode # 0
               \/ ~LastProcess.parses
               \/ ResultMissing(LastProcess.result) # "")
              => last.call.resp.status \in 500..599

(***************************************************************************)
(* C3.  In every adapter, when the worker exceeds the deadline the call    *)
(* kills it and returns a response that differs from the response the same *)
(* call gives for every other worker outcome (a prediction or another kind *)
(* of failure).                                                            *)
(* Fails: LoanApprovalModel.predict returns [[0.5, 0.5]] on a timeout, on  *)
(* every other failure and for a probability of 0.5.                       *)
(***************************************************************************)
C3_TimeoutDistinct ==
    (/\ last.op \in PredictOps
     /\ last.worker.kind = "timeout"
     /\ last.call.launched)
    => /\ last.call.killed
       /\ last.call.exc.type = ""
       /\ \A w \in Workers :
             w.kind # "timeout" =>
                PredictCallOf(last.op, last.input, w, files).resp
                    # last.call.resp

(***************************************************************************)
(* C4.  In every adapter, when the worker exits with a non-zero status the *)
(* call returns an error response whose message carries the worker's       *)
(* stderr; never a default prediction.                                     *)
(* Fails: LoanApprovalModel.predict logs stderr and returns [[0.5, 0.5]].  *)
(***************************************************************************)
C4_WorkerErrorCarriesStderr ==
    (/\ last.op \in PredictOps
     /\ last.call.launched
     /\ ~Raised(LastProcess)
     /\ LastProcess.returncode # 0)
    => /\ IsErrorResp(last.call.resp)
       /\ last.call.resp.error.arg = LastProcess.stderr

(***************************************************************************)
(* C5.  Every health query of every adapter reports "healthy" exactly when *)
(* the adapter's model artifact file exists at the time of the query.      *)
(* Fails: RModelServer.health_status reports its model_ready flag, which   *)
(* the first predict call sets, and never looks at the file.               *)
(***************************************************************************)
C5_HealthReflectsArtifact ==
    last.op \in HealthOps =>
        (last.call.resp.status = "healthy" <=> ArtifactOf(last.op) \in files)

(***************************************************************************)
(* C6.  For every array-form input of at least five values the record sent *)
(* to the worker maps index 0 to age, 1 to income, 2 to education, 3 to    *)
(* experience and 4 to credit_score.                                       *)
(* Fails: LoanApprovalModel.predict raises on a Python list (it reads      *)
(* X.shape), and RModelServer.predict cannot serialise the int64 scalars   *)
(* of an integer numpy array; neither sends a record.                      *)
(***************************************************************************)
C6_PositionalMapping ==
    (HasArrayInput /\ Len(ArrayInput) >= 5)
    => /\ last.call.sent.t = "dict"
       /\ DOMAIN last.call.sent.v = Features
       /\ last.call.sent.v["age"] = Num(ArrayInput[1].v)
       /\ last.call.sent.v["income"] = Num(ArrayInput[2].v)
       /\ last.call.sent.v["education"] = Num(ArrayInput[3].v)
       /\ last.call.sent.v["experience"] = Num(ArrayInput[4].v)
       /\ last.call.sent.v["credit_score"] = Num(ArrayInput[5].v)

(***************************************************************************)
(* C7.  For every array-form input of fewer than five values, every        *)
(* adapter fails with a validation error other than the missing-field      *)
(* error, and starts no worker.                                            *)
(* Fails: Flask /predict answers with the missing-field error, and         *)
(* LoanApprovalModel.predict starts the worker with the short record.      *)
(***************************************************************************)
C7_ShortArrayRejected ==
    (HasArrayInput /\ Len(ArrayInput) < 5)
    => /\ ~last.call.launched
       /\ IsErrorResp(last.call.resp)
       /\ last.call.resp.error.text # "Missing required feature: "
       /\ (last.call.resp.shape = "http" => last.call.resp.status \in 400..499)

\* the prediction a Flask or RModelServer response carries
ReturnedPrediction ==
    IF last.call.resp.shape = "http"
    THEN [probability |-> last.call.resp.predictions[1].probability,
          prediction |-> last.call.resp.predictions[1].prediction,
          confidence |-> last.call.resp.predictions[1].confidence]
    ELSE [probability |-> last.call.resp.predictions[1],
          prediction |-> last.call.resp.prediction_class,
          confidence |-> last.call.resp.confidence]

(***************************************************************************)
(* C8.  For every prediction returned by Flask /predict or                 *)
(* RModelServer.predict, the label is "approved" exactly when the returned *)
(* probability is greater than 0.5, and the returned confidence equals     *)
(* |probability - 0.5| * 2.                                                *)
(* Fails: the script prints probability and confidence with toJSON, which  *)
(* rounds each to 4 decimals; for 1 vote of 3 it prints 0.3333 and 0.3333, *)
(* and |0.3333 - 0.5| * 2 = 0.3334.                                        *)
(***************************************************************************)
C8_LabelAndConfidence ==
    (/\ last.op \in {"flask_predict", "r_predict"}
     /\ IsPredictionResp(last.call.resp))
    => /\ ReturnedPrediction.prediction = "approved"
            <=> ReturnedPrediction.probability > Half
       /\ ReturnedPrediction.confidence
            = Abs(ReturnedPrediction.probability - Half) * 2

\* the kind of value the adapter's predict returns
ShapeOf(op) ==
    CASE op = "flask_predict" -> "http"
      [] op = "r_predict" -> "dict"
      [] op = "seldon_predict" -> "ndarray"

(***************************************************************************)
(* C9.  For every input and every worker outcome, each adapter's predict   *)
(* returns a response of the adapter's shape (an HTTP response, a response *)
(* dictionary, a probability array); no exception leaves predict.          *)
(***************************************************************************)
C9_PredictAlwaysReturns ==
    last.op \in PredictOps =>
        /\ last.call.exc.type = ""
        /\ last.call.resp.shape = ShapeOf(last.op)
        /\ IsErrorResp(last.call.resp) \/ IsPredictionResp(last.call.resp)

\* RModelServer.predict has returned its error dictionary after the worker
\* timed out
C9_Witness ==
    /\ last.op = "r_predict"
    /\ last.worker.kind = "timeout"
    /\ last.call.launched
    /\ last.call.exc.type = ""
    /\ last.call.resp.prediction_class = "error"

\* the record is row zipped positionally against the field names
ZippedFrom(record, row) ==
    /\ record.t = "dict"
    /\ DOMAIN record.v =
          {feature_names[i] : i \in 1..Min(Len(row), Len(feature_names))}
    /\ \A i \in 1..Len(row) :
          i <= Len(feature_names) => record.v[feature_names[i]] = row[i]

(***************************************************************************)
(* C10.  Whenever Flask /predict resolves a record from a JSON object      *)
(* body: with an instances field (a non-empty list) the record is its      *)
(* first element, whether or not there is a data field; otherwise, with a  *)
(* data field, the record is the first row of data.ndarray zipped          *)
(* positionally against the five field names when data has an ndarray      *)
(* field, else data itself; otherwise the record is the body.  A body that *)
(* is exactly a five-field record resolves to itself.                      *)
(***************************************************************************)
C10_ResolutionOrder ==
    (/\ last.op = "flask_predict"
     /\ last.input.t = "dict"
     /\ DOMAIN last.input.v # {})
    => LET b == last.input.v
           record == last.call.instance
       IN  /\ ("instances" \in DOMAIN b /\ b["instances"].t = "list"
                 /\ Len(b["instances"].v) > 0)
                  => record = b["instances"].v[1]
           /\ HasNdarrayRow(last.input)
                  => ZippedFrom(record, b["data"].v["ndarray"].v[1].v)
           /\ ("instances" \notin DOMAIN b /\ "data" \in DOMAIN b
                 /\ \/ b["data"].t = "list"
                    \/ b["data"].t = "dict"
                         /\ "ndarray" \notin DOMAIN b["data"].v)
                  => record = b["data"]
           /\ ("instances" \notin DOMAIN b /\ "data" \notin DOMAIN b)
                  => record = last.input
           /\ DOMAIN b = Features => record = last.input

\* a body with both an instances and a data field resolved to instances[0]
C10_Witness ==
    /\ last.op = "flask_predict"
    /\ last.input.t = "dict"
    /\ {"instances", "data"} \subseteq DOMAIN last.input.v
    /\ last.input.v["data"].t = "dict"
    /\ last.call.instance.t = "dict"
    /\ last.call.instance = last.input.v["instances"].v[1]
    /\ last.call.instance # last.input.v["data"]

(***************************************************************************)
(* C11.  In RModelServer.predict, whenever the temporary input file has    *)
(* been created, it no longer exists when predict returns.                 *)
(* Fails: the file is created and written in a with block that precedes    *)
(* the try/finally that unlinks it; when json.dump raises there (a record  *)
(* holding numpy int64 values) the file, made with delete=False, stays.    *)
(***************************************************************************)
C11_TmpFileRemoved ==
    (last.op = "r_predict" /\ last.call.tmp_created) => ~last.call.tmp_left

=============================================================================
